---- MODULE Spec2Model ----
(***************************************************************************)
(* AssemblyLine (src/assemblyline.py): a Factory of _Station objects run   *)
(* by a bounded number of worker threads.                                  *)
(*                                                                         *)
(* State: the Factory's fields (workers, started, queue, begin_stations,   *)
(* inputname_to_station), the threads the Factory spawned (the seeding     *)
(* thread of begin() and one thread per dequeued unit), and the position   *)
(* of every thread that called begin().                                    *)
(***************************************************************************)
EXTENDS Integers, Sequences, FiniteSets, TLC

VARIABLES
    workersN,              \* Factory.__init__ argument
    stationsdata,          \* Factory.__init__ argument, in iteration order
    built,                 \* "new" | "ok" | "UserWarning" : outcome of __init__
    workers,               \* value of the threading.Semaphore
    started,               \* Factory.started
    queue,                 \* Factory.queue : FIFO of <<station, item>>
    unfinished,            \* queue.unfinished_tasks (put / task_done)
    putlog,                \* every unit put in the queue so far, in put order
    begin_stations,        \* Factory.begin_stations
    inputname_to_station,  \* Factory.inputname_to_station
    callers,               \* the threads of the application that call begin()
    threads                \* the threads started by the Factory, in start order

vars == <<workersN, stationsdata, built, workers, started, queue, unfinished,
          putlog, begin_stations, inputname_to_station, callers, threads>>

graph == <<workersN, stationsdata, built, begin_stations, inputname_to_station>>

----------------------------------------------------------------------------
(* Bounds and environment                                                  *)

\* Largest worker limit tried.
MaxWorkers == 2

\* The interpreter's limit on nested calls (sys.getrecursionlimit(), 1000 by
\* default), scaled to the size of the runs explored here and counted in
\* frames of _recurse_queue: the first frame in which the calls nested in
\* threading.Thread(...) no longer fit.
RecursionLimit == 5

\* Interpreter levels that the calls of a frame of _recurse_queue need below
\* it: threading.Thread(...) (Thread, Event and Condition constructors) and
\* queue.get() (get, Condition.wait or notify, _is_owned and the lock).
ThreadLevels == 6
GetLevels == 3

\* Python's None, and the absence of a dequeued unit.
None == "None"
NoUnit == <<>>

Callers == {"main", "other"}

----------------------------------------------------------------------------
(* Transformations: the `process` objects handed to the stations.          *)
(* A process is a generator: it yields the tuples of `yields` in order and *)
(* then either ends or raises.                                             *)

Const(ys) == [kind |-> "const", yields |-> ys, raises |-> FALSE]
Raising(ys) == [kind |-> "const", yields |-> ys, raises |-> TRUE]
PassThrough == [kind |-> "pass", yields |-> <<>>, raises |-> FALSE]

\* self.process.process(item): the tuples the generator yields for item.
Produce(process, item) ==
    IF process.kind = "pass" THEN << <<item>> >> ELSE process.yields

St(name, process, inputname, outputnames) ==
    [name |-> name, process |-> process, inputname |-> inputname,
     outputnames |-> outputnames]

\* E yields 1, 2, 3 to F.
GraphChain ==
    << St("E", Const(<< <<"1">>, <<"2">>, <<"3">> >>), None, <<"f">>),
       St("F", PassThrough, "f", <<>>) >>

\* A yields one tuple (x, y): x to B, y to C.
GraphFan ==
    << St("A", Const(<< <<"x", "y">> >>), None, <<"b", "c">>),
       St("B", PassThrough, "b", <<>>),
       St("C", Const(<<>>), "c", <<>>) >>

\* Two entry stations (inputname None and ""), one of them yielding nothing.
GraphTwoEntries ==
    << St("E1", Const(<< <<"1">> >>), None, <<"f">>),
       St("E2", Const(<<>>), "", <<"f">>),
       St("F", Const(<<>>), "f", <<>>) >>

\* Two entry stations that both feed F: two workers enqueue concurrently.
GraphJoin ==
    << St("E1", Const(<< <<"1">> >>), None, <<"f">>),
       St("E2", Const(<< <<"2">> >>), None, <<"f">>),
       St("F", Const(<<>>), "f", <<>>) >>

\* A three-stage line; B's tuples are longer than its outputnames.
GraphLine ==
    << St("A", Const(<< <<"x">> >>), None, <<"b">>),
       St("B", Const(<< <<"1", "2">> >>), "b", <<"c">>),
       St("C", Const(<<>>), "c", <<>>) >>

\* A's process raises after its first tuple.
GraphRaise ==
    << St("A", Raising(<< <<"x", "y">> >>), None, <<"b", "c">>),
       St("B", PassThrough, "b", <<>>),
       St("C", PassThrough, "c", <<>>) >>

\* A's process raises after its first tuple, and B's process raises at once.
GraphRaiseTwice ==
    << St("A", Raising(<< <<"x", "y">> >>), None, <<"b", "c">>),
       St("B", Raising(<<>>), "b", <<>>),
       St("C", PassThrough, "c", <<>>) >>

\* A's second output name resolves to no station.
GraphUnresolved ==
    << St("A", Const(<< <<"x", "y">>, <<"x", "y">> >>), None, <<"b", "zz">>),
       St("B", PassThrough, "b", <<>>) >>

\* A's tuple is shorter than its outputnames.
GraphShort ==
    << St("A", Const(<< <<"x">>, <<"x", "y">> >>), None, <<"b", "c">>),
       St("B", PassThrough, "b", <<>>),
       St("C", PassThrough, "c", <<>>) >>

\* Two stations with the same inputname.
GraphDuplicate ==
    << St("A", Const(<< <<"x">> >>), None, <<"b">>),
       St("B", PassThrough, "b", <<>>),
       St("C", PassThrough, "b", <<>>) >>

\* No entry station at all, and an output name that is never declared.
GraphNoEntry ==
    << St("B", Const(<< <<"x">> >>), "b", <<"zz">>) >>

\* E yields four items to F, which yields nothing: five units in all.
GraphLong ==
    << St("E", Const(<< <<"1">>, <<"1">>, <<"1">>, <<"1">> >>),
          None, <<"f">>),
       St("F", Const(<<>>), "f", <<>>) >>

Graphs ==
    {GraphChain, GraphLong, GraphFan, GraphTwoEntries, GraphJoin, GraphLine,
     GraphRaise,
     GraphRaiseTwice, GraphUnresolved, GraphShort, GraphDuplicate,
     GraphNoEntry}

\* The graphs that are also run with a second application thread in the
\* process; the longer runs are explored with the main thread alone.
GraphsWithOther ==
    {GraphFan, GraphLine, GraphRaise, GraphRaiseTwice, GraphUnresolved,
     GraphShort, GraphDuplicate, GraphNoEntry}

\* The station object of a name (stations are referred to by name).
StationOf(name) ==
    LET i == CHOOSE i \in 1..Len(stationsdata) : stationsdata[i].name = name
    IN  stationsdata[i]

----------------------------------------------------------------------------
(* Factory.__init__                                                        *)

\* (variant: only None counts as absent)
TruthyOnlyNone(inputname) == inputname /= None

\* `if inputname:` : None and "" are falsy.
Truthy(inputname) == inputname /= None /\ inputname /= ""

\* (variant: the collision test is missing)
CollidesNever(i2s, inputname) == FALSE

\* `if inputname in self.inputname_to_station` (line 90).
Collides(i2s, inputname) == inputname \in DOMAIN i2s

\* The loop of __init__ over stationsdata from entry i on, with the fields
\* built so far; the result is the fields, or the error raised.
RECURSIVE BuildFrom(_, _, _, _)
BuildFrom(sd, i, bs, i2s) ==
    IF i > Len(sd)
    THEN [error |-> "", begin_stations |-> bs, inputname_to_station |-> i2s]
    ELSE LET s == sd[i] IN
         IF Truthy(s.inputname)
         THEN IF Collides(i2s, s.inputname)
              THEN [error |-> "UserWarning", begin_stations |-> bs,
                    inputname_to_station |-> i2s]
              ELSE BuildFrom(sd, i + 1, bs,
                             [n \in DOMAIN i2s \cup {s.inputname} |->
                                 IF n = s.inputname THEN s.name ELSE i2s[n]])
         ELSE BuildFrom(sd, i + 1, Append(bs, s.name), i2s)

Build(sd) == BuildFrom(sd, 1, <<>>, <<>>)

Init ==
    /\ workersN \in 0..MaxWorkers
    /\ stationsdata \in Graphs
    /\ built = "new"
    /\ workers = 0
    /\ started = FALSE
    /\ queue = <<>>
    /\ unfinished = 0
    /\ putlog = <<>>
    /\ begin_stations = <<>>
    /\ inputname_to_station = <<>>
    /\ callers \in {[c \in Callers |->
                       [pc |-> IF c = "main" THEN "idle" ELSE o,
                        depth |-> 0, timeouts |-> 0, unit |-> NoUnit,
                        result |-> "none"]] :
                    o \in IF stationsdata \in GraphsWithOther
                          THEN {"absent", "waiting"} ELSE {"absent"}}
    /\ threads = <<>>

\* Factory(workersN, stationsdata): lines 74-95.
Construct ==
    /\ built = "new"
    /\ LET b == Build(stationsdata) IN
       IF b.error /= ""
       THEN /\ built' = b.error
            /\ UNCHANGED <<workers, begin_stations, inputname_to_station>>
       ELSE /\ built' = "ok"
            /\ workers' = workersN
            /\ begin_stations' = b.begin_stations
            /\ inputname_to_station' = b.inputname_to_station
    /\ UNCHANGED <<workersN, stationsdata, started, queue, unfinished, putlog,
                   callers, threads>>

----------------------------------------------------------------------------
(* Primitives                                                              *)

\* (variant: acquire succeeds on a semaphore at 0)
CanAcquireAtZero(w) == w >= 0

\* (variant: acquire never blocks)
CanAcquireAlways(w) == TRUE

\* (variant: a release gives back two slots)
ReleasedTwice(w) == w + 2

\* threading.Semaphore: acquire blocks while the value is 0.
CanAcquire(w) == w > 0
Acquired(w) == w - 1
Released(w) == w + 1

\* A thread is alive from start() until its target has returned or raised.
Alive(t) == t.pc /= "dead"

AliveThreads == {i \in 1..Len(threads) : Alive(threads[i])}

CallerAlive(c) == c = "main" \/ callers[c].pc \notin {"absent", "exited"}

\* threading.active_count(): every live thread of the process, the main
\* thread included.
ActiveCount ==
    Cardinality({c \in Callers : CallerAlive(c)}) + Cardinality(AliveThreads)

\* (variant: one live thread is not waited for)
KeepPollingAboveTwo(n) == n > 2

\* `if threading.active_count() > 1` (line 133).
KeepPolling(n) == n > 1

\* (variant: a loop instead of a nested call)
RecurseFlat(cr) == [cr EXCEPT !.pc = "get", !.unit = NoUnit]

\* `return self._recurse_queue()` (lines 112, 134, 142): one more nested
\* frame.  The frame itself always fits where the caller's get() did; what
\* the interpreter refuses are the calls made inside it (GetRefused,
\* ThreadRefused).
Recurse(cr) == [cr EXCEPT !.pc = "get", !.unit = NoUnit, !.depth = @ + 1]

NewThread(kind, station, item, c) ==
    [kind |-> kind, station |-> station, item |-> item, pc |-> "run",
     ti |-> 1, oi |-> 1, sent |-> <<>>, err |-> "", by |-> c]

----------------------------------------------------------------------------
(* Factory.begin                                                           *)

\* (variant: the started check is missing)
AlreadyStartedNever(st) == FALSE

\* `if self.started: raise UserWarning()` (lines 103-105).
AlreadyStarted(st) == st

BeginCheck(c) ==
    /\ built = "ok"
    /\ callers[c].pc \in {"idle", "returned"}
    /\ callers' = [callers EXCEPT ![c].pc =
                      IF AlreadyStarted(started) THEN "UserWarning" ELSE "checked"]
    /\ UNCHANGED <<graph, workers, started, queue, unfinished, putlog, threads>>

\* (variant: the flag is never raised)
StartedLeftAsIs(st) == st

\* `self.started = True` (line 106).
StartedSet(st) == TRUE

BeginSetStarted(c) ==
    /\ callers[c].pc = "checked"
    /\ started' = StartedSet(started)
    /\ callers' = [callers EXCEPT ![c].pc = "begin_acquire"]
    /\ UNCHANGED <<graph, workers, queue, unfinished, putlog, threads>>

\* `self.workers.acquire()` (line 108).
BeginAcquire(c) ==
    /\ callers[c].pc = "begin_acquire"
    /\ CanAcquire(workers)
    /\ workers' = Acquired(workers)
    /\ callers' = [callers EXCEPT ![c].pc = "begin_spawn"]
    /\ UNCHANGED <<graph, started, queue, unfinished, putlog, threads>>

\* Start the _feed_queue thread and call _recurse_queue (lines 109-112).
BeginSpawn(c) ==
    /\ callers[c].pc = "begin_spawn"
    /\ threads' = Append(threads, NewThread("feed", None, None, c))
    /\ callers' = [callers EXCEPT ![c] = Recurse(@)]
    /\ UNCHANGED <<graph, workers, started, queue, unfinished, putlog>>

----------------------------------------------------------------------------
(* Factory._recurse_queue                                                  *)

\* (variant: the newest unit is handed out)
FrontNewest(q) == q[Len(q)]

\* (variant: the unit handed out stays in the queue)
RestKeepsAll(q) == q

\* queue.Queue is FIFO: get() hands out the oldest unit and removes it.
Front(q) == Head(q)
Rest(q) == Tail(q)

\* queue.get() needs fewer levels than threading.Thread(...): it still
\* works in the first frames that cannot make a thread, and is refused
\* ThreadLevels - GetLevels frames further down.
GetRefused(cr) == cr.depth >= RecursionLimit + (ThreadLevels - GetLevels)

\* `self.queue.get(timeout=1)` (lines 127-129): the head of the queue, or
\* queue.Empty when the queue stayed empty for the whole wait.  Where get()
\* is refused, RecursionError is raised inside it: from not_full.notify()
\* after the unit was removed from a non-empty queue (the unit is in no
\* queue, no frame and no worker), or from not_empty.wait() at once when
\* the queue is empty.
QueueGet(c) ==
    /\ callers[c].pc = "get"
    /\ \/ /\ queue /= <<>>
          /\ queue' = Rest(queue)
          /\ callers' = [callers EXCEPT ![c] =
                            IF GetRefused(@)
                            THEN [@ EXCEPT !.pc = "RecursionError",
                                           !.result = "RecursionError",
                                           !.unit = Front(queue)]
                            ELSE [@ EXCEPT !.pc = "got",
                                           !.unit = Front(queue)]]
       \/ /\ queue = <<>>
          /\ queue' = queue
          /\ callers' = [callers EXCEPT ![c] =
                            IF GetRefused(@)
                            THEN [@ EXCEPT !.pc = "RecursionError",
                                           !.result = "RecursionError"]
                            ELSE [@ EXCEPT !.pc = "empty",
                                           !.timeouts = @ + 1]]
    /\ UNCHANGED <<graph, workers, started, unfinished, putlog, threads>>

\* The handler of queue.Empty (lines 129-137).
CheckActive(c) ==
    /\ callers[c].pc = "empty"
    /\ callers' = [callers EXCEPT ![c] =
                      IF KeepPolling(ActiveCount)
                      THEN Recurse(@)
                      ELSE [@ EXCEPT !.pc = "returned", !.result = "True"]]
    /\ UNCHANGED <<graph, workers, started, queue, unfinished, putlog, threads>>

\* `self.workers.acquire()` (line 138).
DispatchAcquire(c) ==
    /\ callers[c].pc = "got"
    /\ CanAcquire(workers)
    /\ workers' = Acquired(workers)
    /\ callers' = [callers EXCEPT ![c].pc = "spawn"]
    /\ UNCHANGED <<graph, started, queue, unfinished, putlog, threads>>

\* `threading.Thread(...)` (line 139) runs constructors nested below the
\* frame of _recurse_queue: from frame RecursionLimit on they exceed the
\* recursion limit and the thread is never made.
ThreadRefused(cr) == cr.depth >= RecursionLimit

\* RecursionError out of line 139: the unit dequeued at line 128 and the
\* slot acquired at line 138 go down with the frames.
Unwound(cr) == [cr EXCEPT !.pc = "RecursionError", !.result = "RecursionError"]

\* Make and start the worker thread and recurse (lines 139-142).
DispatchSpawn(c) ==
    /\ callers[c].pc = "spawn"
    /\ IF ThreadRefused(callers[c])
       THEN /\ threads' = threads
            /\ callers' = [callers EXCEPT ![c] = Unwound(@)]
       ELSE /\ threads' = Append(threads,
                                 NewThread("work", callers[c].unit[1],
                                           callers[c].unit[2], c))
            /\ callers' = [callers EXCEPT ![c] = Recurse(@)]
    /\ UNCHANGED <<graph, workers, started, queue, unfinished, putlog>>

----------------------------------------------------------------------------
(* Factory._feed_queue, run by the seeding thread                          *)

\* (variant: the loop stops one station early)
MoreToFeedButLast(ti, bs) == ti < Len(bs)

\* `for station in self.begin_stations` (line 115): a station is left.
MoreToFeed(ti, bs) == ti <= Len(bs)

FeedStep(i) ==
    /\ threads[i].kind = "feed"
    /\ threads[i].pc = "run"
    /\ LET t == threads[i] IN
       IF MoreToFeed(t.ti, begin_stations)
       THEN LET unit == <<begin_stations[t.ti], None>> IN
            /\ queue' = Append(queue, unit)
            /\ putlog' = Append(putlog, unit)
            /\ unfinished' = unfinished + 1
            /\ threads' = [threads EXCEPT ![i].ti = @ + 1,
                                          ![i].sent = Append(@, unit)]
            /\ UNCHANGED workers
       ELSE /\ workers' = Released(workers)
            /\ threads' = [threads EXCEPT ![i].pc = "released"]
            /\ UNCHANGED <<queue, unfinished, putlog>>
    /\ UNCHANGED <<graph, started, callers>>

----------------------------------------------------------------------------
(* _Station.process_item, run by a worker thread                           *)

\* `self.inputname_to_station[oname]` (line 185).
Resolves(i2s, oname) == oname \in DOMAIN i2s
Destination(i2s, oname) == i2s[oname]

\* `products[oi]` (line 186), positions counted from 1 here.
HasProduct(products, oi) == oi <= Len(products)
\* (variant: always the first element of the tuple)
ProductFirst(products, oi) == products[1]
Product(products, oi) == products[oi]

\* Where the two loops stand after the put at (ti, oi).
NextPosition(ti, oi, nout) ==
    IF oi < nout THEN <<ti, oi + 1>> ELSE <<ti + 1, 1>>

\* Without outputnames the inner loop never runs: the tuples are consumed
\* without a put.
AtEnd(t, yields, nout) == t.ti > Len(yields) \/ nout = 0

\* (variant: the slot is released on the way out of a failure)
SlotsAfterFailureReleased(w) == w + 1

\* An exception leaves process_item before line 188: release() is not
\* reached and the semaphore keeps its value.
SlotsAfterFailure(w) == w

WorkerStep(i) ==
    /\ threads[i].kind = "work"
    /\ threads[i].pc \in {"run", "done"}
    /\ LET t == threads[i]
           s == StationOf(t.station)
           yields == Produce(s.process, t.item)
           nout == Len(s.outputnames)
       IN
       IF t.pc = "done"
       THEN \* release() (line 188), a call of its own after task_done()
            /\ workers' = Released(workers)
            /\ threads' = [threads EXCEPT ![i].pc = "released"]
            /\ UNCHANGED <<queue, unfinished, putlog>>
       ELSE IF AtEnd(t, yields, nout)
       THEN IF s.process.raises
            THEN \* the generator raises: the thread ends in the exception
                 /\ threads' = [threads EXCEPT ![i].pc = "failed",
                                               ![i].err = "ProcessError"]
                 /\ workers' = SlotsAfterFailure(workers)
                 /\ UNCHANGED <<queue, unfinished, putlog>>
            ELSE IF unfinished <= 0
            THEN \* queue.task_done() raises ValueError
                 /\ threads' = [threads EXCEPT ![i].pc = "failed",
                                               ![i].err = "ValueError"]
                 /\ workers' = SlotsAfterFailure(workers)
                 /\ UNCHANGED <<queue, unfinished, putlog>>
            ELSE \* task_done() (line 187)
                 /\ unfinished' = unfinished - 1
                 /\ threads' = [threads EXCEPT ![i].pc = "done"]
                 /\ UNCHANGED <<workers, queue, putlog>>
       ELSE LET oname == s.outputnames[t.oi]
                products == yields[t.ti]
            IN
            IF ~Resolves(inputname_to_station, oname)
            THEN /\ threads' = [threads EXCEPT ![i].pc = "failed",
                                               ![i].err = "KeyError"]
                 /\ workers' = SlotsAfterFailure(workers)
                 /\ UNCHANGED <<queue, unfinished, putlog>>
            ELSE IF ~HasProduct(products, t.oi)
            THEN /\ threads' = [threads EXCEPT ![i].pc = "failed",
                                               ![i].err = "IndexError"]
                 /\ workers' = SlotsAfterFailure(workers)
                 /\ UNCHANGED <<queue, unfinished, putlog>>
            ELSE LET unit == <<Destination(inputname_to_station, oname),
                               Product(products, t.oi)>>
                     pos == NextPosition(t.ti, t.oi, nout)
                 IN
                 /\ queue' = Append(queue, unit)
                 /\ putlog' = Append(putlog, unit)
                 /\ unfinished' = unfinished + 1
                 /\ threads' = [threads EXCEPT ![i].ti = pos[1],
                                               ![i].oi = pos[2],
                                               ![i].sent = Append(@, unit)]
                 /\ UNCHANGED workers
    /\ UNCHANGED <<graph, started, callers>>

\* The thread's target has returned or raised: the thread is no longer alive.
ThreadExit(i) ==
    /\ threads[i].pc \in {"released", "failed"}
    /\ threads' = [threads EXCEPT ![i].pc = "dead"]
    /\ UNCHANGED <<graph, workers, started, queue, unfinished, putlog, callers>>

\* The application's other thread, which waits for a run to have been
\* started, goes on to call begin() itself.
OtherReady ==
    /\ callers["other"].pc = "waiting"
    /\ started
    /\ callers' = [callers EXCEPT !["other"].pc = "idle"]
    /\ UNCHANGED <<graph, workers, started, queue, unfinished, putlog, threads>>

\* The application's other thread ends.
OtherExit ==
    /\ callers["other"].pc \in
          {"waiting", "idle", "UserWarning", "RecursionError", "returned"}
    /\ callers' = [callers EXCEPT !["other"].pc = "exited"]
    /\ UNCHANGED <<graph, workers, started, queue, unfinished, putlog, threads>>

FeedQueue == \E i \in 1..Len(threads) : FeedStep(i)
ProcessItem == \E i \in 1..Len(threads) : WorkerStep(i)
ThreadEnds == \E i \in 1..Len(threads) : ThreadExit(i)

----------------------------------------------------------------------------

Next ==
    \/ Construct
    \/ \E c \in Callers :
          \/ BeginCheck(c)
          \/ BeginSetStarted(c)
          \/ BeginAcquire(c)
          \/ BeginSpawn(c)
          \/ QueueGet(c)
          \/ CheckActive(c)
          \/ DispatchAcquire(c)
          \/ DispatchSpawn(c)
    \/ FeedQueue
    \/ ProcessItem
    \/ ThreadEnds
    \/ OtherReady
    \/ OtherExit

Spec == Init /\ [][Next]_vars

----------------------------------------------------------------------------
(* Vocabulary of the properties                                            *)

Range(seq) == {seq[k] : k \in DOMAIN seq}

IsPrefix(a, b) == Len(a) <= Len(b) /\ SubSeq(b, 1, Len(a)) = a

StationNames == {stationsdata[k].name : k \in DOMAIN stationsdata}

\* The inputnames that count as absent.
Absent(inputname) == inputname \in {None, ""}

\* The station declared with inputname `name`, read off stationsdata.
DeclaredFor(name) ==
    {stationsdata[k].name : k \in {j \in DOMAIN stationsdata :
                                      stationsdata[j].inputname = name}}

\* The threads that execute a station, and those that seed.
WorkIds == {i \in DOMAIN threads : threads[i].kind = "work"}
FeedIds == {i \in DOMAIN threads : threads[i].kind = "feed"}

\* process_item has run to its end (normally or not).
Over(t) == t.pc \notin {"run", "done"}
Failed(t) == t.err /= ""

\* Executions of station S started so far.
Executions(S) == Cardinality({i \in WorkIds : threads[i].station = S})

\* Units enqueued for station S so far, by seeding and by fan-out.
RECURSIVE EnqueuedUpTo(_, _)
EnqueuedUpTo(S, n) ==
    IF n = 0 THEN 0
    ELSE EnqueuedUpTo(S, n - 1)
         + Cardinality({k \in DOMAIN threads[n].sent : threads[n].sent[k][1] = S})

Enqueued(S) == EnqueuedUpTo(S, Len(threads))

\* A graph and transformations within the contract: no process raises,
\* every output name is the inputname of exactly one station, every tuple
\* has an element for every output name.
WithinContract(sd) ==
    \A k \in DOMAIN sd :
        /\ ~sd[k].process.raises
        /\ \A o \in Range(sd[k].outputnames) :
              Cardinality({j \in DOMAIN sd : sd[j].inputname = o}) = 1
        /\ \A y \in Range(sd[k].process.yields) :
              Len(y) >= Len(sd[k].outputnames)

\* One begin() call from the main thread of a process with no other thread,
\* on a Factory with at least one worker and a graph within the contract.
PlainRun ==
    /\ built = "ok"
    /\ workersN >= 1
    /\ WithinContract(stationsdata)
    /\ callers["other"].pc = "absent"

\* Caller c left begin() by a RecursionError that took a dequeued unit with
\* it: raised at line 139, with the slot acquired for the thread that was
\* never made, or raised inside get() at line 128, before any acquire.
Unwinding(c) ==
    callers[c].pc = "RecursionError" /\ callers[c].unit /= NoUnit

UnwindingWithSlot(c) == Unwinding(c) /\ ~GetRefused(callers[c])

\* The run of caller c has ended: begin() returned or raised.
Ended(c) == callers[c].result /= "none"

----------------------------------------------------------------------------
(* C1: for an acyclic graph with unique input names, at least one worker,  *)
(* finite transformations that never raise and output names that resolve,  *)
(* begin() eventually returns True.  Stated on finite runs: begin() never  *)
(* ends such a run in another way than by returning True, even when the    *)
(* dispatcher found a unit in the queue at every dequeue so far.           *)

C1_BeginReturnsTrue ==
    (PlainRun /\ callers["main"].timeouts = 0)
        => callers["main"].result \in {"none", "True"}

----------------------------------------------------------------------------
(* C2: whenever begin() has returned True, the queue is empty and, for     *)
(* every station S, the executions of S equal the units enqueued for S.    *)

C2_ReturnMeansAllExecuted ==
    \A c \in Callers :
        callers[c].result = "True" =>
            /\ queue = <<>>
            /\ \A S \in StationNames : Executions(S) = Enqueued(S)

----------------------------------------------------------------------------
(* C3: the station executions that have not released their slot, together  *)
(* with the slots the dispatcher has acquired for a worker it is about to  *)
(* spawn, never exceed workersN.                                           *)

Unreleased == {i \in WorkIds : threads[i].pc \in {"run", "done"} \/ Failed(threads[i])}

SlotsForSpawn == {c \in Callers : callers[c].pc = "spawn"}

C3_BoundedConcurrency ==
    Cardinality(Unreleased) + Cardinality(SlotsForSpawn) <= workersN

\* One worker allowed, one executing, and a fan-out of two units waiting.
C3_Witness ==
    /\ workersN = 1
    /\ Cardinality({i \in WorkIds : threads[i].pc = "run"}) = 1
    /\ Len(queue) >= 2

----------------------------------------------------------------------------
(* C4: a station execution enqueues, for every tuple its transformation    *)
(* yields, in order, and for every position i of outputnames, the unit     *)
(* (station declared with inputname outputnames[i], tuple[i]), and nothing *)
(* else: what it has enqueued is always a prefix of that list, and the     *)
(* whole list once process_item is over.                                   *)

Routable(s, yields) ==
    /\ \A o \in Range(s.outputnames) : Cardinality(DeclaredFor(o)) = 1
    /\ \A y \in Range(yields) : Len(y) >= Len(s.outputnames)

Routes(s, products) ==
    [i \in 1..Len(s.outputnames) |->
        <<CHOOSE n \in DeclaredFor(s.outputnames[i]) : TRUE, products[i]>>]

RECURSIVE Fanout(_, _, _)
Fanout(s, yields, k) ==
    IF k > Len(yields) THEN <<>>
    ELSE Routes(s, yields[k]) \o Fanout(s, yields, k + 1)

C4_FanOut ==
    \A i \in WorkIds :
        LET t == threads[i]
            s == StationOf(t.station)
            yields == Produce(s.process, t.item)
        IN  Routable(s, yields) =>
               /\ IsPrefix(t.sent, Fanout(s, yields, 1))
               /\ Over(t) => t.sent = Fanout(s, yields, 1)

\* A has yielded (x, y) and is over: x went to B, y to C.
C4_Witness ==
    \E i \in WorkIds :
        /\ threads[i].station = "A"
        /\ Over(threads[i])
        /\ threads[i].sent = << <<"B", "x">>, <<"C", "y">> >>

----------------------------------------------------------------------------
(* C5: a station is in begin_stations iff its inputname is None or "";     *)
(* the seeding task enqueues one unit (station, None) per entry station,   *)
(* none for a station with an inputname, and there is one seeding task.    *)

C5_Seeding ==
    built = "ok" =>
        /\ \A k \in DOMAIN stationsdata :
              stationsdata[k].name \in Range(begin_stations)
                 <=> Absent(stationsdata[k].inputname)
        /\ Cardinality(FeedIds) <= 1
        /\ \A i \in FeedIds :
              LET sent == threads[i].sent IN
              /\ \A k \in DOMAIN sent :
                    /\ sent[k][2] = None
                    /\ Absent(StationOf(sent[k][1]).inputname)
                    /\ \A j \in DOMAIN sent : sent[j] = sent[k] => j = k
              /\ Over(threads[i]) =>
                    {sent[k][1] : k \in DOMAIN sent}
                       = {n \in StationNames : Absent(StationOf(n).inputname)}

\* The seeding task is over and has seeded two entry stations.
C5_Witness ==
    \E i \in FeedIds : Over(threads[i]) /\ Len(threads[i].sent) = 2

----------------------------------------------------------------------------
(* C6: a begin() call made while started is True raises, and changes       *)
(* neither the semaphore, the queue, the threads, started nor the graph.   *)

Calls(c) ==
    /\ callers[c].pc \in {"idle", "returned"}
    /\ callers'[c].pc \notin {callers[c].pc, "exited"}

C6_RerunRejected ==
    [][\A c \in Callers :
          (Calls(c) /\ started) =>
             /\ callers'[c].pc = "UserWarning"
             /\ UNCHANGED <<workers, queue, unfinished, putlog, threads, started, graph>>]_vars

\* The second call was rejected while the first run is still in progress,
\* with units waiting in the queue.
C6_Witness ==
    /\ callers["other"].pc = "UserWarning"
    /\ callers["main"].pc \in {"get", "got", "spawn", "empty"}
    /\ queue /= <<>>

----------------------------------------------------------------------------
(* C7: the constructor raises iff two entries of stationsdata have the     *)
(* same non-empty inputname, and then no begin() ever runs.                *)

DuplicateInput(sd) ==
    \E j, k \in DOMAIN sd :
        /\ j /= k
        /\ sd[j].inputname = sd[k].inputname
        /\ ~Absent(sd[j].inputname)

C7_ConstructorFails ==
    built /= "new" =>
        /\ built = "UserWarning" <=> DuplicateInput(stationsdata)
        /\ built = "UserWarning" =>
              /\ ~started
              /\ threads = <<>>
              /\ \A c \in Callers :
                    callers[c].pc \in {"idle", "waiting", "absent", "exited"}

\* The constructor has raised.
C7_Witness == built = "UserWarning" /\ DuplicateInput(stationsdata)

----------------------------------------------------------------------------
(* C8: begin() has not returned while the seeding thread or a worker       *)
(* thread is alive.                                                        *)

C8_NoReturnWhileAlive ==
    \A c \in Callers : callers[c].result = "True" => AliveThreads = {}

\* begin() returned True after it spawned workers and after it took a
\* timeout while a thread was live (more calls than units plus one).
C8_Witness ==
    /\ callers["main"].result = "True"
    /\ Len(threads) >= 2
    /\ callers["main"].depth > Len(threads)

----------------------------------------------------------------------------
(* C9: an execution that yields no tuple enqueues nothing, releases its    *)
(* slot, and the run still returns True.  Stated on finite runs: a plain   *)
(* run in which an execution yielded nothing and is over, and in which no  *)
(* dequeue has timed out so far, does not end in another way than by       *)
(* returning True.                                                         *)

YieldsNothing(t) ==
    /\ t.kind = "work"
    /\ Produce(StationOf(t.station).process, t.item) = <<>>

\* The worker's own part: it enqueues nothing, and once process_item is
\* over it has released its slot (it has not failed).
ZeroYieldWorker ==
    \A i \in WorkIds :
        (YieldsNothing(threads[i]) /\ ~StationOf(threads[i].station).process.raises)
            => /\ threads[i].sent = <<>>
               /\ ~Failed(threads[i])

C9_ZeroYieldRunReturnsTrue ==
    (PlainRun /\ callers["main"].timeouts = 0
              /\ \E i \in WorkIds :
                    /\ YieldsNothing(threads[i])
                    /\ threads[i].sent = <<>>
                    /\ threads[i].pc \in {"released", "dead"})
        => callers["main"].result \in {"none", "True"}

----------------------------------------------------------------------------
(* C10: a failure inside a worker is confined to that worker: the units it *)
(* enqueued before failing are dispatched normally.  Stated on finite      *)
(* runs: the dispatcher never holds a dequeued unit with no slot left and  *)
(* nobody left to release one.                                             *)

SlotHolders ==
    {i \in DOMAIN threads : threads[i].pc \in {"run", "done"}}

C10_FailureConfined ==
    \A c \in Callers :
        ~ /\ callers[c].pc = "got"
          /\ ~CanAcquire(workers)
          /\ SlotHolders = {}
          /\ \E i \in WorkIds : Failed(threads[i])

----------------------------------------------------------------------------
(* C11: termination depends only on the engine's queue and its own threads:*)
(* once the queue is empty and the seeding thread and the workers have     *)
(* finished, the dispatcher that timed out returns True, whatever other    *)
(* thread is alive in the process.                                         *)

OwnWorkDone == queue = <<>> /\ AliveThreads = {}

C11_OwnThreadsOnly ==
    [][(callers["main"].pc = "empty" /\ OwnWorkDone
           /\ callers'["main"] /= callers["main"])
          => callers'["main"].result = "True"]_vars

----------------------------------------------------------------------------
(* C12: every unit is consumed at most once and only enqueued units are    *)
(* executed: each unit put so far is, as many times as it was put, either  *)
(* in the queue, in the dispatcher's hands, the item of one worker, or was *)
(* dequeued by a call that ended in RecursionError and has no worker; for  *)
(* every station S the executions started are at most the units enqueued.  *)

Count(seq, u) == Cardinality({k \in DOMAIN seq : seq[k] = u})

\* The units a dispatcher has dequeued and not yet given to a worker.
InHand(u) ==
    Cardinality({c \in Callers : callers[c].pc \in {"got", "spawn"}
                                   /\ callers[c].unit = u})

UnitOf(t) == <<t.station, t.item>>

Workers(u) == Cardinality({i \in WorkIds : UnitOf(threads[i]) = u})

\* The units dequeued in a frame that ended in RecursionError: no worker.
Dropped(u) ==
    Cardinality({c \in Callers : Unwinding(c) /\ callers[c].unit = u})

C12_ConsumedAtMostOnce ==
    /\ \A i \in WorkIds : UnitOf(threads[i]) \in Range(putlog)
    /\ \A u \in Range(putlog) :
          Count(putlog, u) = Count(queue, u) + InHand(u) + Workers(u)
                                + Dropped(u)
    /\ \A S \in StationNames : Executions(S) <= Enqueued(S)

\* A station was sent several units, and each of them got its one worker.
C12_Witness ==
    \E S \in StationNames :
        /\ Enqueued(S) >= 2
        /\ Executions(S) = Enqueued(S)
        /\ \A c \in Callers : callers[c].result = "none"

----------------------------------------------------------------------------
(* Overlapping begin() calls: a second application thread that may call    *)
(* begin() at any moment, before or after the first call has set started.  *)

\* One entry station that yields nothing.
GraphSingle == << St("E", Const(<<>>), None, <<>>) >>

InitRace ==
    /\ workersN \in 1..MaxWorkers
    /\ stationsdata \in {GraphSingle}
    /\ built = "new"
    /\ workers = 0
    /\ started = FALSE
    /\ queue = <<>>
    /\ unfinished = 0
    /\ putlog = <<>>
    /\ begin_stations = <<>>
    /\ inputname_to_station = <<>>
    /\ callers \in {[c \in Callers |->
                       [pc |-> IF c = "main" THEN "idle" ELSE o,
                        depth |-> 0, timeouts |-> 0, unit |-> NoUnit,
                        result |-> "none"]] :
                    o \in {"idle", "waiting"}}
    /\ threads = <<>>

SpecRace == InitRace /\ [][Next]_vars

----------------------------------------------------------------------------
(* C13: across all begin() calls on one Factory, overlapping ones          *)
(* included, at most one passes the started check: the entry stations are  *)
(* seeded at most once and at most one dispatcher loop runs.               *)

\* Caller c is inside begin(), past the started check.
PastCheck(c) ==
    callers[c].pc \in {"checked", "begin_acquire", "begin_spawn",
                       "get", "got", "spawn", "empty"}

C13_OneBeginPasses ==
    /\ Cardinality({c \in Callers : PastCheck(c)}) <= 1
    /\ Cardinality(FeedIds) <= 1

----------------------------------------------------------------------------
(* C14: a worker that fails never releases its slot, so each failed worker *)
(* lowers the usable slots by one for good: the semaphore's value is       *)
(* workersN less the slots held by running threads, the slots acquired for *)
(* a thread about to be started, and one per failed worker.  Once workersN *)
(* workers have failed, a dispatcher holding a dequeued unit finds no slot *)
(* and nobody is left to release one: it stays in acquire, and begin() has *)
(* not returned.                                                           *)

FailedWorkers == {i \in WorkIds : Failed(threads[i])}

\* Slots acquired by a caller for a thread it has not started yet, or
\* never will.
SlotsInFlight ==
    Cardinality({c \in Callers : callers[c].pc \in {"begin_spawn", "spawn"}
                                   \/ UnwindingWithSlot(c)})

C14_FailedWorkerKeepsSlot ==
    built = "ok" =>
        /\ workers = workersN - Cardinality(SlotHolders) - SlotsInFlight
                              - Cardinality(FailedWorkers)
        /\ \A c \in Callers :
              (callers[c].pc = "got" /\ Cardinality(FailedWorkers) = workersN)
                 => /\ ~CanAcquire(workers)
                    /\ SlotHolders = {}
                    /\ SlotsInFlight = 0
                    /\ callers[c].result = "none"

\* Both slots of a Factory(2, ...) are lost to failed workers, and the
\* dispatcher holds the next unit.
C14_Witness ==
    /\ workersN = 2
    /\ Cardinality(FailedWorkers) = 2
    /\ callers["main"].pc = "got"
    /\ \A i \in DOMAIN threads : threads[i].pc = "dead"

----------------------------------------------------------------------------
(* C15: the semaphore's value is between 0 and workersN in every state,    *)
(* and in a run without worker failure it is workersN again when begin()   *)
(* has returned True.                                                      *)

C15_SlotConservation ==
    built = "ok" =>
        /\ workers >= 0
        /\ workers <= workersN
        /\ \A c \in Callers :
              (callers[c].result = "True" /\ FailedWorkers = {})
                 => workers = workersN

\* begin() returned True on Factory(2, ...) after a seeding thread and at
\* least two workers have come and gone, none of them failed.
C15_Witness ==
    /\ workersN = 2
    /\ callers["main"].result = "True"
    /\ Len(threads) >= 3
    /\ FailedWorkers = {}
    /\ workers = 2

----------------------------------------------------------------------------
(* C16: the seeding task holds one slot, acquired by begin() before the    *)
(* seeding thread is started and released only after the last entry        *)
(* station's unit was enqueued; while seeding is in progress at most       *)
(* workersN - 1 workers are active, and with workersN = 1 no execution     *)
(* starts before every entry station has been seeded.                      *)

Seeding(t) == t.kind = "feed" /\ t.pc = "run"

\* The workers that hold a slot, and the slots acquired for a worker that
\* is about to be started.
ActiveWorkers == {i \in WorkIds : threads[i].pc \in {"run", "done"}}
SlotsForWorker == Cardinality({c \in Callers : callers[c].pc = "spawn"})

SeededAll(t) ==
    /\ Len(t.sent) = Len(begin_stations)
    /\ \A k \in DOMAIN t.sent : t.sent[k] = <<begin_stations[k], None>>

C16_SeedingHoldsSlot ==
    built = "ok" =>
        /\ \A c \in Callers :
              callers[c].pc = "begin_spawn" => workers <= workersN - 1
        /\ \A i \in FeedIds :
              /\ Seeding(threads[i]) =>
                    /\ workers <= workersN - 1
                    /\ Cardinality(ActiveWorkers) + SlotsForWorker
                          <= workersN - 1
              /\ ~Seeding(threads[i]) => SeededAll(threads[i])
        /\ (workersN = 1 /\ WorkIds /= {}) =>
              \A i \in FeedIds : SeededAll(threads[i])

\* Factory(2, ...) with two entry stations: the first is being executed
\* while the seeding task has yet to enqueue the second.
C16_Witness ==
    /\ workersN = 2
    /\ Len(begin_stations) = 2
    /\ ActiveWorkers /= {}
    /\ \E i \in FeedIds : Seeding(threads[i]) /\ Len(threads[i].sent) = 1

----------------------------------------------------------------------------
(* C17: workers are spawned in the queue's FIFO order: the units put so    *)
(* far, in the order of their puts, are the units of the workers started   *)
(* so far, in the order of their starts, followed by the unit the          *)
(* dispatcher holds and by the queue, whatever the interleaving of the     *)
(* puts of concurrent producers.                                           *)

RECURSIVE StartedUnits(_)
StartedUnits(n) ==
    IF n = 0 THEN <<>>
    ELSE IF threads[n].kind = "work"
         THEN Append(StartedUnits(n - 1), UnitOf(threads[n]))
         ELSE StartedUnits(n - 1)

HeldUnit ==
    IF callers["main"].pc \in {"got", "spawn"} \/ Unwinding("main")
    THEN <<callers["main"].unit>> ELSE <<>>

C17_FifoSpawnOrder ==
    putlog = StartedUnits(Len(threads)) \o HeldUnit \o queue

\* E1's worker was started before E2's, E2's put came before E1's, and
\* F's workers were started in the order of the puts.
C17_Witness ==
    /\ putlog = << <<"E1", None>>, <<"E2", None>>, <<"F", "2">>, <<"F", "1">> >>
    /\ StartedUnits(Len(threads)) = putlog

----------------------------------------------------------------------------
(* C18: the dispatcher's nesting depth grows by one on every dequeue       *)
(* attempt and never shrinks during the run: after every step the depth of *)
(* a caller is the number of units it has dispatched plus the number of    *)
(* timeouts it has taken, plus one while an attempt is under way, and it   *)
(* is no less than before the step.                                        *)

Dispatched(c) ==
    Cardinality({i \in WorkIds : threads[i].by = c})

Attempting(c) == callers[c].pc \in {"get", "got", "spawn", "RecursionError"}

Attempts(c) ==
    Dispatched(c) + callers[c].timeouts + (IF Attempting(c) THEN 1 ELSE 0)

C18_DepthCountsAttempts ==
    [][\A c \in Callers :
          /\ callers'[c].depth >= callers[c].depth
          /\ callers'[c].depth = Attempts(c)']_vars

\* A run that returned True after three units and several timeouts: its
\* depth is the sum of both.
C18_Witness ==
    /\ callers["main"].result = "True"
    /\ Dispatched("main") = 3
    /\ callers["main"].timeouts >= 2
    /\ callers["main"].depth = 3 + callers["main"].timeouts

----------------------------------------------------------------------------
(* C19: no step of a run modifies the station graph: once built, the       *)
(* inputname-to-station mapping, the entry-station list and the stations'  *)
(* inputnames and outputnames stay as the constructor built them; started  *)
(* goes from False to True when a begin() call is accepted and no step     *)
(* sets it back.                                                           *)

AsBuilt ==
    /\ begin_stations = Build(stationsdata).begin_stations
    /\ inputname_to_station = Build(stationsdata).inputname_to_station

Accepted(c) ==
    callers[c].pc = "checked" /\ callers'[c].pc = "begin_acquire"

C19_GraphImmutable ==
    [][/\ built = "ok" => (UNCHANGED graph /\ AsBuilt')
       /\ started => started'
       /\ started' /= started => \E c \in Callers : Accepted(c)
       /\ \A c \in Callers : Accepted(c) => started']_vars

\* A run in which a unit was fanned out, a worker failed and a second
\* begin() was rejected: the graph is as built and started is True.
C19_Witness ==
    /\ built = "ok"
    /\ started
    /\ AsBuilt
    /\ FailedWorkers /= {}
    /\ \E i \in WorkIds : Len(threads[i].sent) >= 2
    /\ callers["other"].pc = "UserWarning"
    /\ Len(begin_stations) >= 1

----------------------------------------------------------------------------
(* C20: with a worker limit of 0, begin() sets started and then blocks in  *)
(* its first acquire for good: no seeding thread is started, no unit is    *)
(* enqueued, begin() does not return, and a later begin() is rejected.     *)

C20_ZeroWorkers ==
    (built = "ok" /\ workersN = 0) =>
        /\ workers = 0
        /\ threads = <<>>
        /\ putlog = <<>>
        /\ queue = <<>>
        /\ \A c \in Callers :
              /\ callers[c].result = "none"
              /\ callers[c].pc \in {"idle", "waiting", "absent", "exited",
                                    "checked", "begin_acquire", "UserWarning"}
              /\ callers[c].pc = "begin_acquire" => started
        /\ started =>
              /\ callers["main"].pc = "begin_acquire"
              /\ ~CanAcquire(workers)
              /\ callers["other"].pc \notin {"checked", "begin_acquire"}

\* Factory(0, ...): the first begin() is blocked in acquire and a second
\* one was rejected.
C20_Witness ==
    /\ workersN = 0
    /\ started
    /\ callers["main"].pc = "begin_acquire"
    /\ callers["other"].pc = "UserWarning"

====
